---- MODULE Spec2Model ----
(***************************************************************************)
(* Model of the inventory-and-order backend of src/app.py: the persistent  *)
(* store (products, orders with their line items) and the HTTP handlers    *)
(* that read and write it.  Each handler is one atomic action: the         *)
(* application serves one request to completion before the next.           *)
(*                                                                         *)
(* Numbers.  Python floats are modelled in halves: the float 1.5 is the    *)
(* integer 3, the float -0.5 is -1; NaN is a separate flag.  Python ints   *)
(* are integers.  A status of 500 stands for an exception that no handler  *)
(* catches (Flask answers it with a generic server error).                 *)
(***************************************************************************)
EXTENDS Integers, Sequences, FiniteSets, TLC

VARIABLES products, orders, last

vars == <<products, orders, last>>

(***************************************************************************)
(* Bounds of the model.                                                    *)
(***************************************************************************)
MaxQty == 2
MaxOrders == 1

(***************************************************************************)
(* Names, identifiers and raw JSON values.                                 *)
(***************************************************************************)
Names == {"Widget", "widget"}

\* str.lower()
Lower(name) == IF name = "Widget" THEN "widget" ELSE name

\* the marker of a key that the JSON object does not carry
NoName == "<absent>"

OrderIds == 1..MaxOrders

NullDate == "null"
Timestamp == "2024-01-01 10:00"

\* A raw JSON value.  kind: "absent" (the key is missing), "null",
\* "text" (a string that is no number), "nan" (the string "nan"),
\* "num" (a JSON number, h halves), "numstr" (a string spelling the number).
Raw(kind, h) == [kind |-> kind, h |-> h]

Halves(q) == 2 * q

PriceRaws ==
    {Raw("absent", 0), Raw("null", 0), Raw("text", 0), Raw("nan", 0)}
        \cup {Raw("num", h) : h \in {-1, 0, 3}}

QtyRaws ==
    {Raw("absent", 0), Raw("null", 0), Raw("text", 0), Raw("numstr", 3),
     Raw("num", -2), Raw("num", -1)}
        \cup {Raw("num", Halves(q)) : q \in 0..MaxQty}

(***************************************************************************)
(* Python's float() and int() on a raw value, and the dict access before   *)
(* them.  exc is "none" or the exception raised.                           *)
(***************************************************************************)
Conv(exc, nan, v) == [exc |-> exc, nan |-> nan, v |-> v]

\* int() of a float truncates toward zero
Trunc(h) == IF h >= 0 THEN h \div 2 ELSE -((-h) \div 2)

FloatOf(raw) ==
    CASE raw.kind = "absent" -> Conv("KeyError", FALSE, 0)
      [] raw.kind = "null" -> Conv("TypeError", FALSE, 0)
      [] raw.kind = "text" -> Conv("ValueError", FALSE, 0)
      [] raw.kind = "nan" -> Conv("none", TRUE, 0)
      [] OTHER -> Conv("none", FALSE, raw.h)

IntOf(raw) ==
    CASE raw.kind = "absent" -> Conv("KeyError", FALSE, 0)
      [] raw.kind = "null" -> Conv("TypeError", FALSE, 0)
      [] raw.kind \in {"text", "nan"} -> Conv("ValueError", FALSE, 0)
      [] raw.kind = "numstr" ->
            IF raw.h % 2 = 0 THEN Conv("none", FALSE, raw.h \div 2)
            ELSE Conv("ValueError", FALSE, 0)
      [] OTHER -> Conv("none", FALSE, Trunc(raw.h))

\* price < 0 on floats: every comparison with NaN is false
FloatNegative(c) == ~c.nan /\ c.v < 0

\* An exception escapes "except ValueError" unless it is a ValueError.
StatusOfExc(exc) == IF exc = "ValueError" THEN 400 ELSE 500

(***************************************************************************)
(* The persistent store.  products maps a stored key to a Product row,     *)
(* orders maps an order id to an Order row with its line items in stored   *)
(* order.  last is the request in flight: what was asked, the store as the *)
(* handler found it, and the answer; it is Idle between two requests.      *)
(***************************************************************************)
Product(price, quantity) == [price |-> price, quantity |-> quantity]

ProductsOrder(product_name, quantity) ==
    [product_name |-> product_name, quantity |-> quantity]

Order(completed, date_processed, items) ==
    [completed |-> completed, date_processed |-> date_processed, products |-> items]

EmptyProducts == [n \in {} |-> Product(0, 0)]
EmptyOrders == [i \in {} |-> Order(FALSE, NullDate, <<>>)]

Snap(p, o) == [products |-> p, orders |-> o]
NoSnap == Snap(EmptyProducts, EmptyOrders)

\* what a handler leaves behind: the answer's status and the store
Res(status, p, o) == [status |-> status, products |-> p, orders |-> o]

Put(f, k, v) == [x \in DOMAIN f \cup {k} |-> IF x = k THEN v ELSE f[x]]
Drop(f, k) == [x \in DOMAIN f \ {k} |-> f[x]]

NoData == <<>>

\* a request: the operation, the name or the id of its route, its payload
Request(op, name, id, data) == [op |-> op, name |-> name, id |-> id, data |-> data]

Idle == [op |-> "idle", name |-> "", id |-> 0, data |-> NoData, status |-> 0, pre |-> NoSnap]

(***************************************************************************)
(* Product handlers.                                                       *)
(***************************************************************************)
\* the try block shared by product create and product update
NumbersOf(data) ==
    LET p == FloatOf(data.price)
        q == IntOf(data.quantity)
    IN  IF p.exc # "none" THEN [status |-> StatusOfExc(p.exc), price |-> p, quantity |-> 0]
        ELSE IF q.exc # "none" THEN [status |-> StatusOfExc(q.exc), price |-> p, quantity |-> 0]
        ELSE IF FloatNegative(p) \/ q.v < 0 THEN [status |-> 400, price |-> p, quantity |-> 0]
        ELSE [status |-> 200, price |-> p, quantity |-> q.v]

\* the Product table: name is the primary key
PrimaryKeyFree(p, name) == name \notin DOMAIN p

\* the Product table: price is a float column that is never NULL, and the
\* storage engine binds NaN as NULL
PriceStorable(price) == ~price.nan

\* GET /api/product/<name>
api_get_product(p, name) ==
    IF Lower(name) \notin DOMAIN p THEN [status |-> 404, body |-> Product(0, 0)]
    ELSE [status |-> 200, body |-> p[Lower(name)]]

\* POST /api/product
api_create_product(p, o, data) ==
    IF data.name = NoName \/ data.price.kind = "absent" \/ data.quantity.kind = "absent"
    THEN Res(400, p, o)
    ELSE LET n == NumbersOf(data)
         IN  IF n.status # 200 THEN Res(n.status, p, o)
             ELSE IF ~PrimaryKeyFree(p, data.name) \/ ~PriceStorable(n.price) THEN Res(500, p, o)
             ELSE Res(200, Put(p, data.name, Product(n.price.v, n.quantity)), o)

\* DELETE /api/product/<name>: the line items that name the product stay
api_delete_product(p, o, name) ==
    IF Lower(name) \notin DOMAIN p THEN Res(500, p, o)
    ELSE Res(200, Drop(p, Lower(name)), o)

\* PUT /api/product/<name>
api_update_product(p, o, name, data) ==
    IF data.price.kind = "absent" /\ data.quantity.kind = "absent" THEN Res(400, p, o)
    ELSE LET n == NumbersOf(data)
         IN  IF n.status # 200 THEN Res(n.status, p, o)
             ELSE IF Lower(name) \notin DOMAIN p \/ ~PriceStorable(n.price) THEN Res(500, p, o)
             ELSE Res(200, Put(p, Lower(name), Product(n.price.v, n.quantity)), o)

(***************************************************************************)
(* Order handlers.  A line item of a payload is [product_name, quantity,   *)
(* extra]: the name or NoName, the raw quantity, and whether the object    *)
(* carries a key other than product_name and quantity.                     *)
(***************************************************************************)
Item(product_name, quantity, extra) ==
    [product_name |-> product_name, quantity |-> quantity, extra |-> extra]

Min(S) == CHOOSE x \in S : \A y \in S : x <= y
Max(S) == CHOOSE x \in S : \A y \in S : x >= y

\* the loop over item.keys(): 400 on a key that is not expected
ItemsKeysStatus(items) ==
    IF \E i \in 1..Len(items) : items[i].extra THEN 400 ELSE 200

\* the loop of existence lookups: product["product_name"] raises KeyError
\* on an item without the key, an unknown product answers 400
ItemsLookupStatus(p, items) ==
    LET bad == {i \in 1..Len(items) :
                    items[i].product_name = NoName \/ items[i].product_name \notin DOMAIN p}
    IN  IF bad = {} THEN 200
        ELSE IF items[Min(bad)].product_name = NoName THEN 500 ELSE 400

\* the try block that builds the ProductsOrder rows
ItemsQuantityStatus(items) ==
    LET bad == {i \in 1..Len(items) :
                    IntOf(items[i].quantity).exc # "none" \/ IntOf(items[i].quantity).v < 0}
    IN  IF bad = {} THEN 200
        ELSE LET c == IntOf(items[Min(bad)].quantity)
             IN  IF c.exc # "none" THEN StatusOfExc(c.exc) ELSE 400

\* product_orders
ProductOrdersOf(items) ==
    [i \in 1..Len(items) |->
        ProductsOrder(items[i].product_name, IntOf(items[i].quantity).v)]

\* the ProductsOrder table: (product name, order id) is the primary key
DistinctProducts(items) ==
    \A i, j \in 1..Len(items) : items[i].product_name = items[j].product_name => i = j

\* the Order table: id is generated by the storage engine
NextOrderId(o) == IF DOMAIN o = {} THEN 1 ELSE Max(DOMAIN o) + 1

\* GET /api/order/<id>
api_get_order(p, o, id) ==
    IF id \notin DOMAIN o THEN Res(500, p, o) ELSE Res(200, p, o)

\* GET /, GET /api/products: every product, read only
get_products(p, o) == Res(200, p, o)

\* GET /api/orders: every order with its line items, read only
get_orders(p, o) == Res(200, p, o)

\* StockStep without the clamp: the subtraction alone
StockStep_noclamp(stock, requested) ==
    [stock |-> stock - requested, quantity |-> requested]

\* StockStep that clamps the stock but keeps the requested quantity
StockStep_keepqty(stock, requested) ==
    [stock |-> IF stock - requested < 0 THEN 0 ELSE stock - requested,
     quantity |-> requested]

\* one turn of the processing loop on a product that exists
StockStep(stock, requested) ==
    IF stock - requested < 0
    THEN [stock |-> 0, quantity |-> stock]
    ELSE [stock |-> stock - requested, quantity |-> requested]

\* the processing loop from item i on; every turn is committed, so a turn
\* that fails on a product that is gone keeps the turns before it
RECURSIVE ProcessItems(_, _, _)
ProcessItems(p, items, i) ==
    IF i > Len(items) THEN [ok |-> TRUE, products |-> p, items |-> items]
    ELSE LET po == items[i]
         IN  IF po.product_name \notin DOMAIN p
             THEN [ok |-> FALSE, products |-> p, items |-> items]
             ELSE LET s == StockStep(p[po.product_name].quantity, po.quantity)
                      row == Product(p[po.product_name].price, s.stock)
                  IN  ProcessItems(Put(p, po.product_name, row),
                                   [items EXCEPT ![i].quantity = s.quantity], i + 1)

\* Completion that forgets the completed flag
Completion_nocompleted(order, items) ==
    [order EXCEPT !.products = items, !.date_processed = Timestamp]

\* the end of processing: date_processed and completed
Completion(order, items) ==
    [order EXCEPT !.products = items, !.date_processed = Timestamp, !.completed = TRUE]

\* api_process_order with a guard that refuses a completed order
api_process_order_guarded(p, o, id) ==
    IF id \notin DOMAIN o THEN Res(500, p, o)
    ELSE IF o[id].completed THEN Res(400, p, o)
    ELSE LET r == ProcessItems(p, o[id].products, 1)
         IN  IF ~r.ok
             THEN Res(500, r.products, [o EXCEPT ![id].products = r.items])
             ELSE Res(200, r.products, [o EXCEPT ![id] = Completion(o[id], r.items)])

\* PUT /api/order/<id>
api_process_order(p, o, id) ==
    IF id \notin DOMAIN o THEN Res(500, p, o)
    ELSE LET r == ProcessItems(p, o[id].products, 1)
         IN  IF ~r.ok
             THEN Res(500, r.products, [o EXCEPT ![id].products = r.items])
             ELSE Res(200, r.products, [o EXCEPT ![id] = Completion(o[id], r.items)])

\* POST /api/order
api_create_order(p, o, data) ==
    IF data.missing THEN Res(400, p, o)
    ELSE IF ItemsKeysStatus(data.products) # 200 THEN Res(400, p, o)
    ELSE IF ItemsLookupStatus(p, data.products) # 200
         THEN Res(ItemsLookupStatus(p, data.products), p, o)
    ELSE IF data.completed.kind # "bool" THEN Res(400, p, o)
    ELSE IF ItemsQuantityStatus(data.products) # 200
         THEN Res(ItemsQuantityStatus(data.products), p, o)
    ELSE IF ~DistinctProducts(data.products) THEN Res(500, p, o)
    ELSE Res(200, p, Put(o, NextOrderId(o),
                         Order(data.completed.b, data.date_processed,
                               ProductOrdersOf(data.products))))

\* DELETE /api/order/<id>: the order goes with its line items
api_delete_order(p, o, id) ==
    IF id \notin DOMAIN o THEN Res(500, p, o) ELSE Res(200, p, Drop(o, id))

\* the line item (product_name, order_id), if stored
HasLineItem(o, id, product_name) ==
    /\ id \in DOMAIN o
    /\ \E i \in 1..Len(o[id].products) : o[id].products[i].product_name = product_name

\* POST /api/order/<id>: every payload item must replace a line item the
\* order has (the delete of a line item that is not there raises); the
\* line items left out of the payload go with the old collection
api_update_order(p, o, id, data) ==
    IF ItemsKeysStatus(data) # 200 THEN Res(400, p, o)
    ELSE IF ItemsLookupStatus(p, data) # 200 THEN Res(ItemsLookupStatus(p, data), p, o)
    ELSE IF ItemsQuantityStatus(data) # 200 THEN Res(ItemsQuantityStatus(data), p, o)
    ELSE IF \E i \in 1..Len(data) : ~HasLineItem(o, id, data[i].product_name)
         THEN Res(500, p, o)
    ELSE IF id \notin DOMAIN o THEN Res(500, p, o)
    ELSE IF ~DistinctProducts(data) THEN Res(500, p, o)
    ELSE Res(200, p, [o EXCEPT ![id].products = ProductOrdersOf(data)])

(***************************************************************************)
(* Requests.  The payloads a client may send, drawn from small sets, and   *)
(* what is recorded of a request in last.                                  *)
(***************************************************************************)
GoodPrices == {Raw("num", 0), Raw("num", 3)}

\* price and quantity: both good, one of them bad, or both bad in the two
\* orders in which float() and int() can fail
UpdatePayloads ==
    [price : GoodPrices, quantity : QtyRaws]
        \cup [price : PriceRaws, quantity : {Raw("num", 2)}]
        \cup {[price |-> Raw("absent", 0), quantity |-> Raw("absent", 0)],
              [price |-> Raw("text", 0), quantity |-> Raw("null", 0)],
              [price |-> Raw("null", 0), quantity |-> Raw("text", 0)]}

ProductPayloads ==
    {[name |-> n, price |-> d.price, quantity |-> d.quantity] :
        n \in Names, d \in UpdatePayloads}
        \cup {[name |-> NoName, price |-> Raw("num", 3), quantity |-> Raw("num", 2)]}

GoodItems == {Item(n, Raw("num", Halves(q)), FALSE) : n \in Names, q \in 0..MaxQty}

BadItems ==
    {Item(NoName, Raw("num", 2), FALSE), Item("widget", Raw("num", 2), TRUE)}
        \cup {Item("widget", raw, FALSE) :
                raw \in {Raw("absent", 0), Raw("null", 0), Raw("text", 0), Raw("num", -2)}}

\* no item, one item, two good items (of two products or of the same one),
\* or one bad item before or after a good one
ItemSeqs ==
    {<<>>} \cup {<<a>> : a \in GoodItems \cup BadItems}
        \cup {<<a, b>> : a \in GoodItems, b \in GoodItems}
        \cup {<<a, Item(n, Raw("num", 2), FALSE)>> : a \in BadItems, n \in Names}
        \cup {<<Item(n, Raw("num", 2), FALSE), a>> : a \in BadItems, n \in Names}

\* the value of "completed": a JSON boolean, or a value of another type
Bool(b) == [kind |-> "bool", b |-> b]
NotBool == [kind |-> "text", b |-> FALSE]

\* missing: one of the six required keys is absent.  The client sends a
\* null date_processed.
OrderPayloads ==
    [missing : {FALSE}, completed : {Bool(TRUE), Bool(FALSE)},
     products : ItemSeqs, date_processed : {NullDate}]
        \cup [missing : {FALSE}, completed : {NotBool},
              products : {<<>>} \cup {<<a>> : a \in GoodItems}, date_processed : {NullDate}]
        \cup {[missing |-> TRUE, completed |-> Bool(FALSE), products |-> <<>>,
               date_processed |-> NullDate]}

\* the handler's result r becomes the store, and the request with the store
\* as it was and the status of r becomes the answer
Handle(req, r) ==
    /\ products' = r.products
    /\ orders' = r.orders
    /\ last' = [op |-> req.op, name |-> req.name, id |-> req.id, data |-> req.data,
                status |-> r.status, pre |-> Snap(products, orders)]

(***************************************************************************)
(* The actions: one per handler, and the answer leaving.  The application  *)
(* serves one request at a time.                                           *)
(***************************************************************************)
Init ==
    /\ products = EmptyProducts
    /\ orders = EmptyOrders
    /\ last = Idle

ApiGetProduct ==
    /\ last.op = "idle"
    /\ \E name \in Names :
        Handle(Request("get_product", name, 0, NoData),
               Res(api_get_product(products, name).status, products, orders))

ApiCreateProduct ==
    /\ last.op = "idle"
    /\ \E data \in ProductPayloads :
        Handle(Request("create_product", "", 0, data),
               api_create_product(products, orders, data))

ApiDeleteProduct ==
    /\ last.op = "idle"
    /\ \E name \in Names :
        Handle(Request("delete_product", name, 0, NoData),
               api_delete_product(products, orders, name))

ApiUpdateProduct ==
    /\ last.op = "idle"
    /\ \E name \in Names, data \in UpdatePayloads :
        Handle(Request("update_product", name, 0, data),
               api_update_product(products, orders, name, data))

GetProducts ==
    /\ last.op = "idle"
    /\ Handle(Request("get_products", "", 0, NoData), get_products(products, orders))

GetOrders ==
    /\ last.op = "idle"
    /\ Handle(Request("get_orders", "", 0, NoData), get_orders(products, orders))

ApiGetOrder ==
    /\ last.op = "idle"
    /\ \E id \in OrderIds :
        Handle(Request("get_order", "", id, NoData), api_get_order(products, orders, id))

ApiProcessOrder ==
    /\ last.op = "idle"
    /\ \E id \in OrderIds :
        Handle(Request("process_order", "", id, NoData),
               api_process_order(products, orders, id))

\* the new order's id is within the model's bound
ApiCreateOrder ==
    /\ last.op = "idle"
    /\ \E data \in OrderPayloads :
        \E r \in {api_create_order(products, orders, data)} :
            /\ r.status = 200 => NextOrderId(orders) \in OrderIds
            /\ Handle(Request("create_order", "", 0, data), r)

ApiDeleteOrder ==
    /\ last.op = "idle"
    /\ \E id \in OrderIds :
        Handle(Request("delete_order", "", id, NoData),
               api_delete_order(products, orders, id))

ApiUpdateOrder ==
    /\ last.op = "idle"
    /\ \E id \in OrderIds, data \in ItemSeqs :
        Handle(Request("update_order", "", id, data),
               api_update_order(products, orders, id, data))

\* the answer is sent and the request is over
Respond ==
    /\ last.op # "idle"
    /\ last' = Idle
    /\ UNCHANGED <<products, orders>>

Next ==
    \/ ApiGetProduct
    \/ ApiCreateProduct
    \/ ApiDeleteProduct
    \/ ApiUpdateProduct
    \/ ApiGetOrder
    \/ ApiProcessOrder
    \/ ApiCreateOrder
    \/ ApiDeleteOrder
    \/ ApiUpdateOrder
    \/ GetProducts
    \/ GetOrders
    \/ Respond

Spec == Init /\ [][Next]_vars

(***************************************************************************)
(* Vocabulary of the properties.                                           *)
(***************************************************************************)
\* the store differs from the one the handler found
Changed == Snap(products, orders) # last.pre

\* the order the request names, before and after
PreOrder == last.pre.orders[last.id]
PostOrder == orders[last.id]

\* the request is a process of an order that was stored
Processing == last.op = "process_order" /\ last.id \in DOMAIN last.pre.orders

\* the stock of a line item's product as the handler found it
PreStock(po) == last.pre.products[po.product_name].quantity

\* every line item of the order names a product that was stored
AllStocked ==
    \A i \in 1..Len(PreOrder.products) :
        PreOrder.products[i].product_name \in DOMAIN last.pre.products

\* the class of a numeric field of a payload: "ok", "nan", or one of the
\* malformed classes "absent", "nonnumeric", "negative"
NumShape(raw, c) ==
    IF raw.kind = "absent" THEN "absent"
    ELSE IF c.exc # "none" THEN "nonnumeric"
    ELSE IF c.nan THEN "nan"
    ELSE IF raw.h < 0 THEN "negative"
    ELSE "ok"

Malformed == {"absent", "nonnumeric", "negative"}

ShapeOf(classes, malformed) ==
    IF malformed \/ classes \cap Malformed # {} THEN "malformed"
    ELSE IF "nan" \in classes THEN "nan"
    ELSE "wellformed"

ProductShape(data, nameMissing) ==
    ShapeOf({NumShape(data.price, FloatOf(data.price)),
             NumShape(data.quantity, IntOf(data.quantity))}, nameMissing)

ItemsShape(items, malformed) ==
    ShapeOf({NumShape(items[i].quantity, IntOf(items[i].quantity)) : i \in 1..Len(items)},
            \/ malformed
            \/ \E i \in 1..Len(items) : items[i].extra \/ items[i].product_name = NoName)

\* some item names a product that is not stored
UnknownRef(p, items) ==
    \E i \in 1..Len(items) :
        items[i].product_name # NoName /\ items[i].product_name \notin DOMAIN p

\* a payload of {product_name, quantity} items over distinct stored products
\* with non-negative integer quantities
Clean(p, items) ==
    /\ DistinctProducts(items)
    /\ \A i \in 1..Len(items) :
        /\ items[i].product_name \in DOMAIN p
        /\ ~items[i].extra
        /\ items[i].quantity.kind = "num"
        /\ items[i].quantity.h >= 0
        /\ items[i].quantity.h % 2 = 0

\* the (product, quantity) pairs a clean payload spells
PairsOf(items) ==
    [i \in 1..Len(items) |->
        ProductsOrder(items[i].product_name, items[i].quantity.h \div 2)]

\* the id of the order that a successful order-create has stored
NewOrderId == NextOrderId(last.pre.orders)

C2_Clamp ==
    Processing /\ last.status = 200 =>
        \A i \in 1..Len(PreOrder.products) :
            LET po == PreOrder.products[i]
            IN  po.quantity > PreStock(po) =>
                    /\ products[po.product_name].quantity = 0
                    /\ PostOrder.products[i].product_name = po.product_name
                    /\ PostOrder.products[i].quantity = PreStock(po)

\* a processed line item asked for 2 of a product of which 1 was in stock
C2_Witness ==
    /\ Processing
    /\ last.status = 200
    /\ \E i \in 1..Len(PreOrder.products) :
        /\ PreStock(PreOrder.products[i]) > 0
        /\ PreOrder.products[i].quantity > PreStock(PreOrder.products[i])
        /\ PostOrder.products[i].quantity = PreStock(PreOrder.products[i])

(***************************************************************************)
(* C3: when an order is processed and every line item asks for at most the *)
(* stock of its product, every such product's stock goes down by exactly   *)
(* the requested amount, the line items stay as they were, and the order   *)
(* ends completed with a date_processed that is not null.                  *)
(***************************************************************************)
C3_WithinStock ==
    /\ Processing
    /\ AllStocked
    /\ \A i \in 1..Len(PreOrder.products) :
        PreOrder.products[i].quantity <= PreStock(PreOrder.products[i])
    =>  /\ last.status = 200
        /\ \A i \in 1..Len(PreOrder.products) :
            LET po == PreOrder.products[i]
            IN  products[po.product_name].quantity = PreStock(po) - po.quantity
        /\ PostOrder.products = PreOrder.products
        /\ PostOrder.completed
        /\ PostOrder.date_processed # NullDate

\* a pending order of two line items, both within stock and one of them
\* for more than nothing, has been processed
C3_Witness ==
    /\ Processing
    /\ AllStocked
    /\ ~PreOrder.completed
    /\ Len(PreOrder.products) = 2
    /\ \A i \in 1..Len(PreOrder.products) :
        PreOrder.products[i].quantity <= PreStock(PreOrder.products[i])
    /\ \E i \in 1..Len(PreOrder.products) : PreOrder.products[i].quantity > 0
    /\ PostOrder.completed

(***************************************************************************)
(* C4: completed is true only if the process operation ran on the order:   *)
(* a successful order-create leaves the new order with completed = false,  *)
(* and a line-item replacement never turns completed to true.              *)
(***************************************************************************)
C4_CompletedOnlyByProcess ==
    /\ last.op = "create_order" /\ last.status = 200 => ~orders[NewOrderId].completed
    /\ last.op = "update_order" /\ last.status = 200 =>
            (PostOrder.completed => PreOrder.completed)

(***************************************************************************)
(* C5: after a successful product-create, the product is stored under the  *)
(* lowercased name, and a GET of any case variant of the name answers 200  *)
(* with the price and the quantity that were supplied.                     *)
(***************************************************************************)
C5_CaseInsensitive ==
    last.op = "create_product" /\ last.status = 200 =>
        /\ Lower(last.data.name) \in DOMAIN products
        /\ \A v \in Names :
            Lower(v) = Lower(last.data.name) =>
                api_get_product(products, v)
                    = [status |-> 200,
                       body |-> Product(last.data.price.h, Trunc(last.data.quantity.h))]

(***************************************************************************)
(* C6: an order-create whose products list names a product that is not     *)
(* stored is answered with 400 and leaves the store as it was.             *)
(***************************************************************************)
C6_UnknownProduct ==
    last.op = "create_order" /\ UnknownRef(last.pre.products, last.data.products) =>
        last.status = 400 /\ ~Changed

(***************************************************************************)
(* C7: an operation that looks an entity up by a key that matches nothing  *)
(* answers NotFound (404) and leaves the store as it was.                  *)
(***************************************************************************)
C7_Missing ==
    \/ /\ last.op \in {"get_product", "delete_product", "update_product"}
       /\ Lower(last.name) \notin DOMAIN last.pre.products
    \/ /\ last.op \in {"get_order", "process_order", "delete_order", "update_order"}
       /\ last.id \notin DOMAIN last.pre.orders

C7_NotFound == C7_Missing => last.status = 404 /\ ~Changed

(***************************************************************************)
(* C8: a line-item replacement on a stored order with a payload over       *)
(* stored products and non-negative integer quantities: while the order is *)
(* not completed it succeeds and the order's line items become exactly the *)
(* payload's pairs; once the order is completed it leaves the line items.  *)
(***************************************************************************)
C8_Replacement ==
    /\ last.op = "update_order"
    /\ last.id \in DOMAIN last.pre.orders
    /\ Clean(last.pre.products, last.data)
    =>  IF PreOrder.completed
        THEN PostOrder.products = PreOrder.products
        ELSE last.status = 200 /\ PostOrder.products = PairsOf(last.data)

(***************************************************************************)
(* C9: a malformed payload (a field absent, not numeric, negative, a       *)
(* completed that is no boolean, an extraneous line-item key, one of price *)
(* and quantity alone) of product-create, product-update, order-create or  *)
(* line-item replacement ends in acceptance or in a 400 rejection, never   *)
(* in an unhandled failure, and a rejection writes nothing.                *)
(***************************************************************************)
C9_Shape ==
    CASE last.op = "create_product" -> ProductShape(last.data, last.data.name = NoName)
      [] last.op = "update_product" -> ProductShape(last.data, FALSE)
      [] last.op = "create_order" ->
            ItemsShape(last.data.products,
                       last.data.missing \/ last.data.completed.kind # "bool")
      [] last.op = "update_order" -> ItemsShape(last.data, FALSE)
      [] OTHER -> "none"

C9_Total ==
    C9_Shape = "malformed"
    =>  /\ last.status \in {200, 400}
        /\ last.status = 400 => ~Changed

(***************************************************************************)
(* C10: process on an order that is already completed is accepted and      *)
(* adjusts the stock again: every line item's product loses the line       *)
(* item's current quantity, clamped at 0 with the line item rewritten to   *)
(* the stock that was left, and the order stays completed.                 *)
(***************************************************************************)
C10_Reprocess ==
    Processing /\ PreOrder.completed /\ AllStocked =>
        /\ last.status = 200
        /\ PostOrder.completed
        /\ Len(PostOrder.products) = Len(PreOrder.products)
        /\ \A i \in 1..Len(PreOrder.products) :
            LET po == PreOrder.products[i]
                left == PreStock(po) - po.quantity
            IN  /\ products[po.product_name].quantity = IF left < 0 THEN 0 ELSE left
                /\ PostOrder.products[i].quantity
                        = IF left < 0 THEN PreStock(po) ELSE po.quantity

\* an order that process had completed is processed again and a product's
\* stock goes down a second time
C10_Witness ==
    /\ Processing
    /\ PreOrder.completed
    /\ PreOrder.date_processed = Timestamp
    /\ last.status = 200
    /\ \E i \in 1..Len(PreOrder.products) :
        LET po == PreOrder.products[i]
        IN  /\ po.quantity > 0
            /\ products[po.product_name].quantity < PreStock(po)

====
